---- MODULE Spec2Model ----
(***************************************************************************)
(* The infrared pulse decoder of arduino_ir_decoder.pde: the Timer2        *)
(* overflow handler that turns line samples into pulse lengths, the        *)
(* polling loop that reports a finished frame, and the NEC decoder with    *)
(* its tolerance match.  The target is an 8-bit AVR: int and unsigned int  *)
(* are 16 bits wide, so every uint16_t expression is computed modulo 2^16. *)
(* The handler of the later sketch arduino_ir_decoder.ino, which prints    *)
(* from inside the timeout branch, is modelled after the .pde.             *)
(***************************************************************************)
EXTENDS Integers, Sequences, FiniteSets, TLC

VARIABLES
    state,                   \* volatile uint8_t state
    ir_pulses,               \* volatile uint16_t ir_pulses[200]
    current_ir_pulse_index,  \* volatile uint16_t current_ir_pulse_index
    number_of_pulses,        \* volatile uint16_t number_of_pulses
    timeblock_counter,       \* volatile uint16_t timeblock_counter
    beyond,                  \* the words past the end of ir_pulses that a store has reached
    interrupts,              \* the global interrupt flag: sei() sets it, cli() clears it
    pc,                      \* where loop() stands
    serial,                  \* what has been printed: one record per print_out_pulse_details()
    tx,                      \* the transmitter: the run lengths still to be sampled
    frames_sent,             \* the transmissions started so far
    finished,                \* one record per tick that moved state to STATE_FINISHED
    runs,                    \* the runs of equal samples taken since the frame's first active sample
    expected_value,          \* is_pulse_match: first argument
    pulse_time_blocks,       \* is_pulse_match: second argument
    match_result             \* is_pulse_match: the value returned, -1 before the call

vars == <<state, ir_pulses, current_ir_pulse_index, number_of_pulses,
          timeblock_counter, beyond, interrupts, pc, serial, tx, frames_sent,
          finished, runs, expected_value, pulse_time_blocks, match_result>>

capture_vars == <<state, ir_pulses, current_ir_pulse_index, number_of_pulses,
                  timeblock_counter, beyond>>

env_vars == <<tx, frames_sent, runs>>

match_vars == <<expected_value, pulse_time_blocks, match_result>>

----------------------------------------------------------------------------
(* Program constants *)

PULSE_TIME_BLOCKS_IN_MICROSECONDS == 50

PULSE_DECODING_MARGIN_OF_ERROR == 150

STATE_IDLE == 0

STATE_MARK == 1

STATE_SPACE == 2

STATE_FINISHED == 3

\* ir_pulses[200]
IR_PULSES_LENGTH == 200

\* if(timeblock_counter >= 600)
TIMEOUT_BLOCKS == 600

\* number_of_pulses != 67
NEC_PULSES == 67

\* uint16_t, and unsigned int on the AVR: values 0 .. 2^16 - 1
UINT16 == 65536

\* uint8_t: values 0 .. 2^8 - 1
UINT8 == 256

\* uint32_t nec_data: its width in bits.  A uint32_t is held as its 32 bits,
\* the top bit (bit 31) first.
NEC_BITS == 32

----------------------------------------------------------------------------
(* Bounds of the exploration *)

\* transmissions the transmitter starts
MaxFrames == 2

\* runs (marks and spaces) of the long toggling transmission
BurstRuns == 202

\* inactive samples the handler takes in STATE_IDLE before the next transmission
MaxIdleBlocks == 1

\* words right after ir_pulses in which one of the sketch's other globals may
\* lie; the words after them are taken to be memory the sketch does not use
MaxGlobalWords == 2

----------------------------------------------------------------------------
(* The shared globals as one record, so that a handler run is a function  *)
(* from the globals before to the globals after.                          *)

Globals ==
    [state |-> state, idx |-> current_ir_pulse_index, n |-> number_of_pulses,
     cnt |-> timeblock_counter, pulses |-> ir_pulses, beyond |-> beyond]

\* The sketch's other globals: each may be what the linker placed in a word
\* past the end of ir_pulses.
GlobalNames ==
    {"current_ir_pulse_index", "number_of_pulses", "state", "timeblock_counter"}

\* What a word past the end of the array may be, given the words already
\* settled: the object settled for it, or else memory the sketch does not
\* use ("other") or, near the array, a global not yet found elsewhere.
TargetsAt(g, slot) ==
    IF slot \in DOMAIN g.beyond
    THEN {g.beyond[slot].target}
    ELSE IF slot >= IR_PULSES_LENGTH + MaxGlobalWords
    THEN {"other"}
    ELSE {"other"} \cup
         (GlobalNames \ {g.beyond[s].target : s \in DOMAIN g.beyond})

\* A 16-bit store of g.cnt to the word `slot` past the array, which holds t.
\* The AVR is little-endian: a store over the one-byte state puts the low
\* byte in state and the high byte in the byte after it.
StoreBeyond(g, slot, t) ==
    LET w == IF t = "other" THEN g.cnt ELSE 0
        b == [s \in DOMAIN g.beyond \cup {slot} |->
                 IF s = slot THEN [target |-> t, word |-> w] ELSE g.beyond[s]]
        h == [g EXCEPT !.beyond = b]
    IN  CASE t = "current_ir_pulse_index" -> [h EXCEPT !.idx = g.cnt]
          [] t = "number_of_pulses"       -> [h EXCEPT !.n = g.cnt]
          [] t = "state"                  -> [h EXCEPT !.state = g.cnt % UINT8]
          [] OTHER                        -> h

\* ir_pulses[current_ir_pulse_index] = timeblock_counter;
\* The set of outcomes: one when the index is inside the array; past its end
\* the store is out of range and lands on whatever the build placed there.
Store(g) ==
    IF g.idx < IR_PULSES_LENGTH
    THEN {[g EXCEPT !.pulses[g.idx] = g.cnt]}
    ELSE {StoreBeyond(g, g.idx, t) : t \in TargetsAt(g, g.idx)}

\* state == STATE_IDLE branch
ISR_Idle(g, active) ==
    IF active
    THEN Store([g EXCEPT !.state = STATE_MARK, !.cnt = 1])
    ELSE {g}

\* ISR_Mark that does not count the edge sample in the space it starts: the
\* counter restarts at 0.
ISR_MarkDropsEdgeSample(g, active) ==
    IF active
    THEN Store(g)
    ELSE Store([g EXCEPT !.state = STATE_SPACE, !.cnt = 0,
                         !.idx = (g.idx + 1) % UINT16])

\* state == STATE_MARK branch
ISR_Mark(g, active) ==
    IF active
    THEN Store(g)
    ELSE Store([g EXCEPT !.state = STATE_SPACE, !.cnt = 1,
                         !.idx = (g.idx + 1) % UINT16])

\* the timeout branch of STATE_SPACE
ISR_Timeout(g) ==
    [g EXCEPT !.state = STATE_FINISHED, !.cnt = 0, !.n = g.idx, !.idx = 0]

\* state == STATE_SPACE branch
ISR_Space(g, active) ==
    IF g.cnt >= TIMEOUT_BLOCKS
    THEN {ISR_Timeout(g)}
    ELSE IF active
         THEN Store([g EXCEPT !.state = STATE_MARK, !.cnt = 1,
                              !.idx = (g.idx + 1) % UINT16])
         ELSE Store(g)

\* the branches taken when state != STATE_FINISHED, after the increment
ISR_Running(g, active) ==
    IF g.state = STATE_IDLE THEN ISR_Idle(g, active)
    ELSE IF g.state = STATE_MARK THEN ISR_Mark(g, active)
    ELSE IF g.state = STATE_SPACE THEN ISR_Space(g, active)
    ELSE {g}

\* ISR without its test of STATE_FINISHED: the handler runs its body on
\* every tick.
ISR_NoFinishedTest(g, active) ==
    ISR_Running([g EXCEPT !.cnt = (g.cnt + 1) % UINT16], active)

\* ISR that takes STATE_FINISHED for STATE_IDLE: an active sample starts a
\* new capture before the frame has been reported.
ISR_RestartsFromFinished(g, active) ==
    IF g.state = STATE_FINISHED
    THEN ISR_Idle(g, active)
    ELSE ISR_Running([g EXCEPT !.cnt = (g.cnt + 1) % UINT16], active)

\* ISR(TIMER2_OVF_vect): the globals it can leave, for one line sample
ISR(g, active) ==
    IF g.state # STATE_FINISHED
    THEN ISR_Running([g EXCEPT !.cnt = (g.cnt + 1) % UINT16], active)
    ELSE {g}

----------------------------------------------------------------------------
(* The decoder *)

\* int is_pulse_match(uint16_t expected_value, uint16_t pulse_time_blocks)
\* Every operand is a uint16_t, promoted to the 16-bit unsigned int: the
\* product, the sum and the difference are all reduced modulo 2^16.
is_pulse_match(expected, blocks) ==
    LET actual_time == (blocks * PULSE_TIME_BLOCKS_IN_MICROSECONDS) % UINT16
    IN  IF /\ expected <= (actual_time + PULSE_DECODING_MARGIN_OF_ERROR) % UINT16
           /\ expected >= (actual_time - PULSE_DECODING_MARGIN_OF_ERROR) % UINT16
        THEN 1
        ELSE 0

\* the header test of try_print_nec_details: TRUE when it returns 0 at once
nec_header_fails(g) ==
    \/ g.n # NEC_PULSES
    \/ is_pulse_match(9000, g.pulses[0]) = 0
    \/ is_pulse_match(4500, g.pulses[1]) = 0
    \/ is_pulse_match(560, g.pulses[66]) = 0

\* uint32_t nec_data = 0;
Zero32 == [k \in 1..NEC_BITS |-> 0]

\* nec_data >> 1
ShiftRight(w) == <<0>> \o SubSeq(w, 1, NEC_BITS - 1)

\* nec_data << 1
ShiftLeft(w) == SubSeq(w, 2, NEC_BITS) \o <<0>>

\* nec_data | 0b10000000000000000000000000000000
OrTopBit(w) == [w EXCEPT ![1] = 1]

\* nec_shift_in with the shift reversed: the bits are taken top bit first.
nec_shift_in_reversed(nec_data, blocks) ==
    IF is_pulse_match(565, blocks) = 1
    THEN [ShiftLeft(nec_data) EXCEPT ![NEC_BITS] = 1]
    ELSE ShiftLeft(nec_data)

\* one off pulse: nec_data >> 1, then the top bit set when it is a 1 bit
nec_shift_in(nec_data, blocks) ==
    IF is_pulse_match(565, blocks) = 1
    THEN OrTopBit(ShiftRight(nec_data))
    ELSE ShiftRight(nec_data)

\* One pass of the body of for(int i = 3; i < 66; i++): nec_data after it,
\* or << >> when an on pulse fails its check and the function returns 0.
nec_body(g, i, nec_data) ==
    IF i % 2 = 1
    THEN nec_shift_in(nec_data, g.pulses[i])
    ELSE IF is_pulse_match(560, g.pulses[i]) = 0
         THEN << >>
         ELSE nec_data

\* for(int i = 3; i < 66; i++): nec_data after the loop, or << >> when the
\* function has returned 0 inside it
RECURSIVE nec_loop(_, _, _)
nec_loop(g, i, nec_data) ==
    IF nec_data = << >> THEN << >>
    ELSE IF i >= 66 THEN nec_data
    ELSE nec_loop(g, i + 1, nec_body(g, i, nec_data))

\* for(int i = 0; i < 32; i++): the digits printed after "NEC Data : ", each
\* the top bit of nec_data, which is then shifted left
RECURSIVE nec_digits(_, _)
nec_digits(nec_data, i) ==
    IF i >= NEC_BITS THEN << >>
    ELSE <<nec_data[1]>> \o nec_digits(ShiftLeft(nec_data), i + 1)

\* int try_print_nec_details(): `ret` is the value returned, `digits` the
\* digits printed after "NEC Data : " (none when it returns 0).
try_print_nec_details(g) ==
    IF nec_header_fails(g)
    THEN [ret |-> 0, digits |-> << >>]
    ELSE LET nec_data == nec_loop(g, 3, Zero32)
         IN  IF nec_data = << >>
             THEN [ret |-> 0, digits |-> << >>]
             ELSE [ret |-> 1, digits |-> nec_digits(nec_data, 0)]

\* The word read at ir_pulses[i].  Past the end of the array it is whatever
\* lives there: a global, a word a store has left there, or a word this
\* model does not hold (-1: any value).
ReadPulse(g, i) ==
    IF i < IR_PULSES_LENGTH THEN g.pulses[i]
    ELSE IF i \notin DOMAIN g.beyond THEN -1
    ELSE LET t == g.beyond[i].target
         IN  CASE t = "current_ir_pulse_index" -> g.idx
               [] t = "number_of_pulses"       -> g.n
               [] t = "timeblock_counter"      -> g.cnt
               [] t = "other"                  -> g.beyond[i].word
               [] OTHER                        -> -1

\* ir_pulses[i] * PULSE_TIME_BLOCKS_IN_MICROSECONDS, an unsigned int
PrintedMicroseconds(w) ==
    IF w = -1 THEN -1 ELSE (w * PULSE_TIME_BLOCKS_IN_MICROSECONDS) % UINT16

\* void print_out_pulse_details(): what it sends to the serial port, in the
\* order sent: the number after "Number of pulses = ", the list between the
\* brackets, then "NEC Data : " with its digits or "Unknown format."
print_out_pulse_details(g) ==
    LET nec == try_print_nec_details(g)
    IN  << [kind |-> "Number of pulses", value |-> <<g.n>>],
           [kind |-> "list",
            value |-> [i \in 1..g.n |-> PrintedMicroseconds(ReadPulse(g, i - 1))]],
           IF nec.ret = 0
           THEN [kind |-> "Unknown format.", value |-> << >>]
           ELSE [kind |-> "NEC Data", value |-> nec.digits] >>

----------------------------------------------------------------------------
(* The transmitter: the line samples the handler is given *)

\* The long transmission: the line toggles on every sample, and each of the
\* last two runs (a mark, then a space) lasts two samples.
Burst == [i \in 1..BurstRuns |-> IF i >= BurstRuns - 1 THEN 2 ELSE 1]

\* The transmissions explored, each a list of run lengths in samples,
\* starting with a mark; silence follows the last run.
Scripts ==
    {<<1>>, <<2, 1, 1>>,
     <<1, TIMEOUT_BLOCKS - 1, 3>>, <<2, TIMEOUT_BLOCKS - 2, 1>>, Burst}

\* the transmitter after one sample of its current run
Advance(t) ==
    IF Head(t.runs) > 1
    THEN [t EXCEPT !.runs = <<Head(t.runs) - 1>> \o Tail(t.runs)]
    ELSE [runs |-> Tail(t.runs), active |-> ~t.active]

Silent == [runs |-> <<>>, active |-> FALSE]

\* the samples the next tick may take: [active, tx, frames]
Samples ==
    IF tx.runs # <<>>
    THEN {[active |-> tx.active, tx |-> Advance(tx), frames |-> frames_sent]}
    ELSE {[active |-> FALSE, tx |-> Silent, frames |-> frames_sent] : x \in
             {y \in {0} : IF state = STATE_IDLE
                          THEN timeblock_counter < MaxIdleBlocks
                          ELSE timeblock_counter < TIMEOUT_BLOCKS}}
         \cup
         {[active |-> TRUE, tx |-> Advance([runs |-> s, active |-> TRUE]),
           frames |-> frames_sent + 1] : s \in
             {r \in Scripts : frames_sent < MaxFrames /\ state = STATE_IDLE}}

\* The record of the samples the handler has taken in this frame, as runs
\* of equal samples, after one more sample: the first run starts with the
\* active sample taken in STATE_IDLE, odd runs are marks, even runs spaces;
\* a sample taken in STATE_FINISHED is not part of any frame.
RunsAfter(active) ==
    IF state = STATE_FINISHED THEN runs
    ELSE IF state = STATE_IDLE \/ runs = << >>
         THEN (IF active THEN <<1>> ELSE runs)
    ELSE IF active = (Len(runs) % 2 = 1)
         THEN [runs EXCEPT ![Len(runs)] = @ + 1]
         ELSE Append(runs, 1)

----------------------------------------------------------------------------
(* The actions *)

\* Tick with the report made by the handler itself, on the tick that
\* finishes the frame, as the .ino does.
TickReports ==
    /\ interrupts
    /\ \E s \in Samples : \E g \in ISR(Globals, s.active) :
          /\ state' = g.state
          /\ ir_pulses' = g.pulses
          /\ current_ir_pulse_index' = g.idx
          /\ number_of_pulses' = g.n
          /\ timeblock_counter' = g.cnt
          /\ beyond' = g.beyond
          /\ tx' = s.tx
          /\ frames_sent' = s.frames
          /\ finished' = IF state # STATE_FINISHED /\ g.state = STATE_FINISHED
                         THEN Append(finished, print_out_pulse_details(g))
                         ELSE finished
          /\ serial' = IF state # STATE_FINISHED /\ g.state = STATE_FINISHED
                       THEN Append(serial, print_out_pulse_details(g))
                       ELSE serial
          /\ runs' = RunsAfter(s.active)
    /\ UNCHANGED <<interrupts, pc, match_vars>>

\* One timer overflow: the handler runs on one line sample.
Tick ==
    /\ interrupts
    /\ \E s \in Samples : \E g \in ISR(Globals, s.active) :
          /\ state' = g.state
          /\ ir_pulses' = g.pulses
          /\ current_ir_pulse_index' = g.idx
          /\ number_of_pulses' = g.n
          /\ timeblock_counter' = g.cnt
          /\ beyond' = g.beyond
          /\ tx' = s.tx
          /\ frames_sent' = s.frames
          /\ finished' = IF state # STATE_FINISHED /\ g.state = STATE_FINISHED
                         THEN Append(finished, print_out_pulse_details(g))
                         ELSE finished
          /\ runs' = RunsAfter(s.active)
    /\ UNCHANGED <<interrupts, pc, serial, match_vars>>

\* if(state == STATE_FINISHED)
LoopIf ==
    /\ pc = "if"
    /\ pc' = IF state = STATE_FINISHED THEN "cli" ELSE "if"
    /\ UNCHANGED <<capture_vars, interrupts, serial, env_vars, finished, match_vars>>

\* cli();
LoopCli ==
    /\ pc = "cli"
    /\ interrupts' = FALSE
    /\ pc' = "print"
    /\ UNCHANGED <<capture_vars, serial, env_vars, finished, match_vars>>

\* print_out_pulse_details();
LoopPrint ==
    /\ pc = "print"
    /\ serial' = Append(serial, print_out_pulse_details(Globals))
    /\ pc' = "assign"
    /\ UNCHANGED <<capture_vars, interrupts, env_vars, finished, match_vars>>

\* state = STATE_IDLE;
LoopAssign ==
    /\ pc = "assign"
    /\ state' = STATE_IDLE
    /\ pc' = "sei"
    /\ UNCHANGED <<ir_pulses, current_ir_pulse_index, number_of_pulses,
                   timeblock_counter, beyond, interrupts, serial, env_vars,
                   finished, match_vars>>

\* sei();
LoopSei ==
    /\ pc = "sei"
    /\ interrupts' = TRUE
    /\ pc' = "if"
    /\ UNCHANGED <<capture_vars, serial, env_vars, finished, match_vars>>

\* The globals as the C runtime and setup() leave them.
Init ==
    /\ state = STATE_IDLE
    /\ ir_pulses = [i \in 0..(IR_PULSES_LENGTH - 1) |-> 0]
    /\ current_ir_pulse_index = 0
    /\ number_of_pulses = 0
    /\ timeblock_counter = 0
    /\ beyond = << >>
    /\ interrupts = TRUE
    /\ pc = "if"
    /\ serial = << >>
    /\ tx = Silent
    /\ frames_sent = 0
    /\ finished = << >>
    /\ runs = << >>
    /\ expected_value = 0
    /\ pulse_time_blocks = 0
    /\ match_result = -1

Next == Tick \/ LoopIf \/ LoopCli \/ LoopPrint \/ LoopAssign \/ LoopSei

Spec == Init /\ [][Next]_vars

----------------------------------------------------------------------------
(* The decoder on its own: a finished frame is in the globals and loop()   *)
(* stands before print_out_pulse_details().                                *)

\* The sample counts a pulse of `us` microseconds is captured as: the
\* nearest counts of 50 microsecond samples below and above it.
BlocksOf(us) ==
    {us \div PULSE_TIME_BLOCKS_IN_MICROSECONDS,
     (us + PULSE_TIME_BLOCKS_IN_MICROSECONDS - 1) \div PULSE_TIME_BLOCKS_IN_MICROSECONDS}

\* 32-bit words, each by its bits: w[k] is bit k
Words ==
    {[k \in 0..(NEC_BITS - 1) |-> 0],
     [k \in 0..(NEC_BITS - 1) |-> 1],
     [k \in 0..(NEC_BITS - 1) |-> IF k = 0 THEN 1 ELSE 0],
     [k \in 0..(NEC_BITS - 1) |-> IF k = NEC_BITS - 1 THEN 1 ELSE 0],
     [k \in 0..(NEC_BITS - 1) |-> IF (k \div 8) % 2 = 0 THEN 1 ELSE 0],
     [k \in 0..(NEC_BITS - 1) |-> k % 2]}

\* The buffer after the remote's frame for w: leader 9000 on, 4500 off, then
\* per bit 560 on and 565 off (a 1) or 1690 off (a 0), then the stop 560 on.
\* `up` picks the count above (TRUE) or below each duration.
NecFrame(w, up) ==
    LET pick(us) == IF up THEN CHOOSE b \in BlocksOf(us) : \A c \in BlocksOf(us) : b >= c
                          ELSE CHOOSE b \in BlocksOf(us) : \A c \in BlocksOf(us) : b <= c
    IN  [i \in 0..(IR_PULSES_LENGTH - 1) |->
            IF i = 0 THEN pick(9000)
            ELSE IF i = 1 THEN pick(4500)
            ELSE IF i >= NEC_PULSES THEN 0
            ELSE IF i % 2 = 0 THEN pick(560)
            ELSE IF w[(i - 3) \div 2] = 1 THEN pick(565) ELSE pick(1690)]

\* sample counts put in place of one pulse of the frame
OddBlocks == {0, 3, 20, 60, 1322, 1401, 1491}

\* pulse counts tried
PulseCounts == {0, NEC_PULSES - 1, NEC_PULSES, NEC_PULSES + 1}

InitDecode ==
    /\ state = STATE_FINISHED
    /\ \E w \in Words, up \in BOOLEAN, p \in 0..NEC_PULSES, b \in OddBlocks :
          ir_pulses = IF p = NEC_PULSES
                      THEN NecFrame(w, up)
                      ELSE [NecFrame(w, up) EXCEPT ![p] = b]
    /\ current_ir_pulse_index = 0
    /\ number_of_pulses \in PulseCounts
    /\ timeblock_counter = 0
    /\ beyond = << >>
    /\ interrupts = FALSE
    /\ pc = "print"
    /\ serial = << >>
    /\ tx = Silent
    /\ frames_sent = 1
    /\ finished = << >>
    /\ runs = << >>
    /\ expected_value = 0
    /\ pulse_time_blocks = 0
    /\ match_result = -1

NextDecode == LoopPrint

SpecDecode == InitDecode /\ [][NextDecode]_vars

----------------------------------------------------------------------------
(* The tolerance match on its own *)

\* the largest sample count tried
MaxBlocks == 1500

\* expected durations tried, in microseconds
ExpectedValues == {0, 100, 150, 560, 565, 1690, 4500, 9000, 65535}

\* is_pulse_match(expected_value, pulse_time_blocks) is called and returns
CallMatch ==
    /\ match_result = -1
    /\ match_result' = is_pulse_match(expected_value, pulse_time_blocks)
    /\ UNCHANGED <<capture_vars, interrupts, pc, serial, env_vars, finished,
                   expected_value, pulse_time_blocks>>

InitMatch ==
    /\ state = STATE_IDLE
    /\ ir_pulses = [i \in 0..(IR_PULSES_LENGTH - 1) |-> 0]
    /\ current_ir_pulse_index = 0
    /\ number_of_pulses = 0
    /\ timeblock_counter = 0
    /\ beyond = << >>
    /\ interrupts = TRUE
    /\ pc = "if"
    /\ serial = << >>
    /\ tx = Silent
    /\ frames_sent = 0
    /\ finished = << >>
    /\ runs = << >>
    /\ expected_value \in ExpectedValues
    /\ pulse_time_blocks \in 0..MaxBlocks
    /\ match_result = -1

NextMatch == CallMatch

SpecMatch == InitMatch /\ [][NextMatch]_vars

----------------------------------------------------------------------------
(* The sketch arduino_ir_decoder.ino.  Its globals, loop() and decoder are  *)
(* those of the .pde; its handler differs.  timeblock_counter holds the     *)
(* handler's current_pulse_block_counter.  A handler run gives the globals  *)
(* it leaves (g) and the reports it prints (out).                           *)

\* handler runs that print nothing
Ino_Quiet(gs) == {[g |-> h, out |-> << >>] : h \in gs}

\* state == STATE_IDLE branch
Ino_Idle(g, active) ==
    Ino_Quiet(IF active
              THEN Store([g EXCEPT !.state = STATE_MARK, !.cnt = 1])
              ELSE {g})

\* state == STATE_MARK branch
Ino_Mark(g, active) ==
    Ino_Quiet(IF active
              THEN Store([g EXCEPT !.cnt = (g.cnt + 1) % UINT16])
              ELSE Store([g EXCEPT !.state = STATE_SPACE, !.cnt = 1,
                                   !.idx = (g.idx + 1) % UINT16]))

\* The timeout branch: state = STATE_FINISHED; cli(); print_out_pulse_details();
\* and only then state = STATE_IDLE, the counter, number_of_pulses and the
\* index are assigned.
Ino_Timeout(g) ==
    [g   |-> [g EXCEPT !.state = STATE_IDLE, !.cnt = 0, !.n = g.idx, !.idx = 0],
     out |-> <<print_out_pulse_details([g EXCEPT !.state = STATE_FINISHED])>>]

\* state == STATE_SPACE branch
Ino_Space(g, active) ==
    IF g.cnt >= TIMEOUT_BLOCKS
    THEN {Ino_Timeout(g)}
    ELSE Ino_Quiet(IF active
                   THEN Store([g EXCEPT !.state = STATE_MARK, !.cnt = 1,
                                        !.idx = (g.idx + 1) % UINT16])
                   ELSE Store([g EXCEPT !.cnt = (g.cnt + 1) % UINT16]))

\* the state machine of the handler: what follows its first test
Ino_Body(g, active) ==
    IF g.state = STATE_IDLE THEN Ino_Idle(g, active)
    ELSE IF g.state = STATE_MARK THEN Ino_Mark(g, active)
    ELSE IF g.state = STATE_SPACE THEN Ino_Space(g, active)
    ELSE Ino_Quiet({g})

\* ISR(TIMER2_OVF_vect) of the .ino: if(state != STATE_FINISHED){ return; }
\* and then the state machine
Ino_ISR(g, active) ==
    IF g.state # STATE_FINISHED
    THEN Ino_Quiet({g})
    ELSE Ino_Body(g, active)

\* The samples the next tick may take.  The handler counts nothing in
\* STATE_IDLE, so silent samples there change nothing.
InoSamples ==
    IF tx.runs # <<>>
    THEN {[active |-> tx.active, tx |-> Advance(tx), frames |-> frames_sent]}
    ELSE {[active |-> FALSE, tx |-> Silent, frames |-> frames_sent]}
         \cup
         {[active |-> TRUE, tx |-> Advance([runs |-> s, active |-> TRUE]),
           frames |-> frames_sent + 1] : s \in
             {r \in Scripts : frames_sent < MaxFrames /\ state = STATE_IDLE}}

\* the variables after the handler run r on the sample s
InoTaken(r, s) ==
    /\ state' = r.g.state
    /\ ir_pulses' = r.g.pulses
    /\ current_ir_pulse_index' = r.g.idx
    /\ number_of_pulses' = r.g.n
    /\ timeblock_counter' = r.g.cnt
    /\ beyond' = r.g.beyond
    /\ serial' = serial \o r.out
    /\ tx' = s.tx
    /\ frames_sent' = s.frames
    /\ runs' = RunsAfter(s.active)
    /\ UNCHANGED <<interrupts, pc, finished, match_vars>>

\* One timer overflow of the .ino: the whole handler on one line sample.
InoTick ==
    /\ interrupts
    /\ \E s \in InoSamples : \E r \in Ino_ISR(Globals, s.active) : InoTaken(r, s)

\* One timer overflow with the handler entered after its first test: the
\* state machine alone on one line sample.
InoBodyTick ==
    /\ interrupts
    /\ \E s \in InoSamples : \E r \in Ino_Body(Globals, s.active) : InoTaken(r, s)

\* One pass of loop() of the .ino.  The handler holds STATE_FINISHED only
\* inside its own run, so the pass is taken whole.
InoLoop ==
    /\ pc = "if"
    /\ IF state = STATE_FINISHED
       THEN /\ serial' = Append(serial, print_out_pulse_details(Globals))
            /\ state' = STATE_IDLE
       ELSE UNCHANGED <<serial, state>>
    /\ UNCHANGED <<ir_pulses, current_ir_pulse_index, number_of_pulses,
                   timeblock_counter, beyond, interrupts, pc, env_vars,
                   finished, match_vars>>

NextIno == InoTick \/ InoLoop

\* the .ino sketch as it is
SpecIno == Init /\ [][NextIno]_vars

NextInoBody == InoBodyTick \/ InoLoop

\* the .ino sketch with its handler entered at the state machine
SpecInoBody == Init /\ [][NextInoBody]_vars

----------------------------------------------------------------------------
(* What the claims speak of *)

\* the report printed last
LastReport == serial[Len(serial)]

\* a report says "Unknown format."
IsUnknown(r) == r[3].kind = "Unknown format."

\* |expected - duration| <= margin, the duration being 50 microseconds per
\* sample, not reduced
WithinMargin(expected, blocks) ==
    LET d == blocks * PULSE_TIME_BLOCKS_IN_MICROSECONDS
    IN  /\ expected - d <= PULSE_DECODING_MARGIN_OF_ERROR
        /\ d - expected <= PULSE_DECODING_MARGIN_OF_ERROR

\* print_out_pulse_details() has just returned in the decoder's own run
Printed == pc = "assign" /\ Len(serial) = 1

\* the payload marks and spaces of a 67-pulse frame
PayloadMarks == {i \in 2..(NEC_PULSES - 3) : i % 2 = 0}

PayloadSpaces == {i \in 3..(NEC_PULSES - 2) : i % 2 = 1}

\* The buffer holds a frame of 67 pulses with the leader, the marks and the
\* stop of the remote, every space a 565 us or a 1690 us one.
IsNecFrame ==
    /\ number_of_pulses = NEC_PULSES
    /\ ir_pulses[0] \in BlocksOf(9000)
    /\ ir_pulses[1] \in BlocksOf(4500)
    /\ ir_pulses[NEC_PULSES - 1] \in BlocksOf(560)
    /\ \A i \in PayloadMarks : ir_pulses[i] \in BlocksOf(560)
    /\ \A i \in PayloadSpaces : ir_pulses[i] \in BlocksOf(565) \cup BlocksOf(1690)

\* bit k of the word the frame in the buffer was made from
FrameBit(k) == IF ir_pulses[3 + 2 * k] \in BlocksOf(565) THEN 1 ELSE 0

----------------------------------------------------------------------------
(* The claims *)

\* C1: every store to ir_pulses uses an index below 200, and
\* current_ir_pulse_index and number_of_pulses never exceed 200, whatever the
\* line does (a line that keeps toggling included).
C1_IndexStaysInBuffer ==
    /\ DOMAIN beyond = {}
    /\ current_ir_pulse_index <= IR_PULSES_LENGTH
    /\ number_of_pulses <= IR_PULSES_LENGTH

\* C2: while state is STATE_FINISHED no step, a tick on either line sample
\* included, changes ir_pulses, current_ir_pulse_index, number_of_pulses or
\* timeblock_counter, and state leaves STATE_FINISHED only by the assignment
\* state = STATE_IDLE of loop().
C2_FinishedIsFrozen ==
    [][state = STATE_FINISHED =>
         /\ UNCHANGED <<ir_pulses, current_ir_pulse_index, number_of_pulses,
                        timeblock_counter>>
         /\ \/ state' = STATE_FINISHED
            \/ pc = "assign" /\ pc' = "sei" /\ state' = STATE_IDLE]_vars

\* C2 witness: the handler has taken an active sample while the frame was
\* still waiting in STATE_FINISHED (the second sample of a three-sample mark
\* whose first sample fell on the timeout tick).
C2_TickWhileFinished ==
    /\ state = STATE_FINISHED
    /\ tx = [runs |-> <<1>>, active |-> TRUE]
    /\ current_ir_pulse_index = 0
    /\ number_of_pulses = 1

\* C3: a frame made from a 32-bit word v (9000 us mark, 4500 us space, then
\* per bit a 560 us mark and a 565 us space for a 1 or a 1690 us space for a
\* 0, then a 560 us mark) is accepted and the word printed is v: the first
\* space is bit 0, the last bit 31; v = 0 is printed as the word 0.
C3_BitOrderRoundTrip ==
    (Printed /\ IsNecFrame) =>
        /\ LastReport[3].kind = "NEC Data"
        /\ Len(LastReport[3].value) = NEC_BITS
        /\ \A k \in 0..(NEC_BITS - 1) : LastReport[3].value[NEC_BITS - k] = FrameBit(k)

\* C3 witness: a frame whose word has bit 0 set and bit 31 clear has been
\* decoded and printed.
C3_AsymmetricWordPrinted ==
    /\ Printed /\ IsNecFrame
    /\ FrameBit(0) = 1 /\ FrameBit(NEC_BITS - 1) = 0
    /\ LastReport[3].kind = "NEC Data"

\* C4: a 67-pulse frame in which some payload mark (index 2, 4, ..., 64)
\* is not within 150 us of 560 us is rejected.
C4_PayloadMarksChecked ==
    (/\ Printed
     /\ number_of_pulses = NEC_PULSES
     /\ \E i \in PayloadMarks : ~WithinMargin(560, ir_pulses[i]))
    => IsUnknown(LastReport)

\* C5: a 67-pulse frame in which some payload space (index 3, 5, ..., 65)
\* is within 150 us of neither 565 us nor 1690 us is rejected.
C5_PayloadSpacesChecked ==
    (/\ Printed
     /\ number_of_pulses = NEC_PULSES
     /\ \E i \in PayloadSpaces :
           ~WithinMargin(565, ir_pulses[i]) /\ ~WithinMargin(1690, ir_pulses[i]))
    => IsUnknown(LastReport)

\* C6: a frame whose pulse count is not 67, or whose pulse 0 is not within
\* the margin of 9000 us, pulse 1 of 4500 us or pulse 66 of 560 us, is
\* reported as "Unknown format.", after the list of its number_of_pulses
\* pulses.
C6_HeaderRejected ==
    (/\ Printed
     /\ \/ number_of_pulses # NEC_PULSES
        \/ ~WithinMargin(9000, ir_pulses[0])
        \/ ~WithinMargin(4500, ir_pulses[1])
        \/ ~WithinMargin(560, ir_pulses[NEC_PULSES - 1]))
    => /\ IsUnknown(LastReport)
       /\ LastReport[1] = [kind |-> "Number of pulses", value |-> <<number_of_pulses>>]
       /\ LastReport[2].kind = "list"
       /\ Len(LastReport[2].value) = number_of_pulses

\* C7: is_pulse_match(e, t) returns 1 exactly when |e - 50 t| <= 150, the
\* duration 50 t not reduced modulo 2^16.
C7_MatchIsTheMargin ==
    match_result # -1 =>
        (match_result = 1 <=> WithinMargin(expected_value, pulse_time_blocks))

\* C8: in STATE_SPACE the tick that brings the counter to 600 sets
\* STATE_FINISHED, no tick bringing it to 599 or less does, and
\* STATE_FINISHED is entered from no state but STATE_SPACE.
C8_TimeoutBoundary ==
    [][/\ (/\ state = STATE_SPACE
           /\ timeblock_counter = TIMEOUT_BLOCKS - 1
           /\ timeblock_counter' # timeblock_counter)
          => state' = STATE_FINISHED
       /\ (state # STATE_FINISHED /\ state' = STATE_FINISHED)
          => (state = STATE_SPACE /\ timeblock_counter = TIMEOUT_BLOCKS - 1)]_vars

\* C9: when state becomes STATE_FINISHED, number_of_pulses is the number of
\* runs completed before the trailing space, which is the buffer index of
\* that space and at least 1.
C9_CountAtFinish ==
    [][(state # STATE_FINISHED /\ state' = STATE_FINISHED)
          => /\ number_of_pulses' = Len(runs) - 1
             /\ number_of_pulses' = current_ir_pulse_index
             /\ number_of_pulses' >= 1]_vars

\* C10: the reports are the frames that reached STATE_FINISHED, in their
\* order, each once and none skipped (at most the last one is still to be
\* printed), and the handler is capturing only when every finished frame has
\* been reported and loop() is back at its test.
C10_ReportedOnceInOrder ==
    /\ Len(serial) <= Len(finished)
    /\ Len(finished) <= Len(serial) + 1
    /\ \A k \in 1..Len(serial) : serial[k] = finished[k]
    /\ (state = STATE_FINISHED /\ pc \in {"if", "cli", "print"})
          => Len(finished) = Len(serial) + 1
    /\ state \in {STATE_MARK, STATE_SPACE}
          => (Len(finished) = Len(serial) /\ pc = "if")

\* C10 witness: two different frames have finished and both have been
\* reported, in that order.
C10_TwoFramesReported ==
    /\ Len(serial) = 2
    /\ serial = finished
    /\ serial[1] # serial[2]
    /\ state = STATE_IDLE

\* C11: when loop() has processed a finished frame (its assignment
\* state = STATE_IDLE has run), state is STATE_IDLE and
\* current_ir_pulse_index is 0, and the step that leaves STATE_IDLE (the next
\* active sample) starts a pulse of one sample at buffer index 0.
C11_ResetToInitial ==
    [][/\ (pc = "assign" /\ pc' = "sei")
          => (state' = STATE_IDLE /\ current_ir_pulse_index' = 0)
       /\ (state = STATE_IDLE /\ state' # STATE_IDLE)
          => /\ state' = STATE_MARK
             /\ timeblock_counter' = 1
             /\ current_ir_pulse_index' = 0
             /\ ir_pulses'[0] = 1]_vars

\* C12: a step that takes the capture past the last entry of the buffer
\* (the index leaves 199 without the timeout finishing the frame) aborts the
\* frame: state becomes STATE_IDLE and the index 0.
C12_OverflowAborts ==
    [][(/\ current_ir_pulse_index = IR_PULSES_LENGTH - 1
        /\ current_ir_pulse_index' # current_ir_pulse_index
        /\ state' # STATE_FINISHED)
       => (state' = STATE_IDLE /\ current_ir_pulse_index' = 0)]_vars

C14_ActiveSampleEndsSpace ==
    [][(/\ state = STATE_SPACE
        /\ tx.runs # << >>
        /\ tx.active
        /\ tx' # tx
        /\ current_ir_pulse_index < IR_PULSES_LENGTH - 1)
       => /\ state' = STATE_MARK
          /\ current_ir_pulse_index' = current_ir_pulse_index + 1
          /\ timeblock_counter' = 1
          /\ ir_pulses' = [ir_pulses EXCEPT ![current_ir_pulse_index + 1] = 1]]_vars

\* C15: when state becomes STATE_FINISHED and no store of the run so far has
\* left the buffer, each entry ir_pulses[i] with i < number_of_pulses is the
\* length in samples of run i + 1 of the frame, the runs counted from the
\* active sample that started it.
C15_FaithfulRunLengths ==
    [][(/\ state # STATE_FINISHED
        /\ state' = STATE_FINISHED
        /\ DOMAIN beyond' = {})
       => /\ number_of_pulses' < Len(runs)
          /\ \A i \in 0..(number_of_pulses' - 1) : ir_pulses'[i] = runs[i + 1]]_vars

\* C15 witness: the frame of a two-sample mark, a 598-sample space and a
\* one-sample mark has finished with its three run lengths in the buffer.
C15_LongSpaceRecorded ==
    /\ state = STATE_FINISHED
    /\ number_of_pulses = 3
    /\ ir_pulses[0] = 2
    /\ ir_pulses[1] = TIMEOUT_BLOCKS - 2
    /\ ir_pulses[2] = 1
    /\ beyond = << >>

\* C16: in every reachable state the index is 0 in STATE_IDLE and
\* STATE_FINISHED, even in STATE_MARK and odd in STATE_SPACE, and once a
\* frame has finished number_of_pulses is odd.
C16_PolarityByParity ==
    /\ state \in {STATE_IDLE, STATE_FINISHED} => current_ir_pulse_index = 0
    /\ state = STATE_MARK => current_ir_pulse_index % 2 = 0
    /\ state = STATE_SPACE => current_ir_pulse_index % 2 = 1
    /\ finished # << >> => number_of_pulses % 2 = 1

\* C17: every step of loop() that reads or writes the shared capture state
\* (the test of state, the report, the assignment state = STATE_IDLE) is
\* taken with the interrupts disabled, so that no tick can fall between it
\* and the next step of loop().
C17_ConsumerExcludesTicks ==
    [][(pc' # pc /\ pc \in {"if", "print", "assign"}) => ~interrupts]_vars

\* C18: in the .ino a tick taken in STATE_IDLE on an active sample moves to
\* STATE_MARK with the counter at 1 stored at buffer index 0.
C18_IdleTickStartsMark ==
    [][(/\ state = STATE_IDLE
        /\ \/ frames_sent' # frames_sent
           \/ (tx.runs # << >> /\ tx.active /\ tx' # tx))
       => /\ state' = STATE_MARK
          /\ timeblock_counter' = 1
          /\ current_ir_pulse_index' = 0
          /\ ir_pulses'[0] = 1]_vars

\* C19: in the .ino, when the state machine is entered in STATE_SPACE with
\* the counter at 600 or more, the report it prints gives as its number of
\* pulses, and lists, the buffer index the frame has reached.
C19_ReportCountIsIndex ==
    [][(/\ state = STATE_SPACE
        /\ timeblock_counter >= TIMEOUT_BLOCKS
        /\ serial' # serial)
       => /\ serial'[Len(serial')][1].value = <<current_ir_pulse_index>>
          /\ Len(serial'[Len(serial')][2].value) = current_ir_pulse_index]_vars

\* C20: a report is printed only by the step of loop() that stands at
\* print_out_pulse_details(), with state STATE_FINISHED and the interrupts
\* disabled, and it leaves the capture state alone; the tick that times out
\* (the counter going from 599 in STATE_SPACE) prints nothing and changes
\* only state, number_of_pulses, the index and the counter.
C20_ReportingDeferred ==
    [][/\ serial' # serial
          => /\ pc = "print" /\ pc' = "assign"
             /\ state = STATE_FINISHED
             /\ ~interrupts
             /\ serial' = Append(serial, print_out_pulse_details(Globals))
             /\ UNCHANGED capture_vars
       /\ (/\ state = STATE_SPACE
           /\ timeblock_counter = TIMEOUT_BLOCKS - 1
           /\ timeblock_counter' # timeblock_counter)
          => /\ state' = STATE_FINISHED
             /\ number_of_pulses' = current_ir_pulse_index
             /\ current_ir_pulse_index' = 0
             /\ timeblock_counter' = 0
             /\ UNCHANGED <<ir_pulses, beyond, serial, interrupts, pc>>]_vars

\* C20 witness: a frame of three pulses has timed out and loop() has just
\* printed its report, the handler having printed nothing.
C20_ReportPrintedByLoop ==
    /\ pc = "assign"
    /\ state = STATE_FINISHED
    /\ number_of_pulses = 3
    /\ Len(finished) = 1
    /\ serial = finished

====
